---- MODULE Spec2Model ----
(***************************************************************************)
(* Model of the Tumble Gym backend (FastAPI handlers over MongoDB          *)
(* collections, the in-memory OTP store, and the invoice / geofence        *)
(* helper functions).  Each handler is one atomic action; a collection is  *)
(* a sequence of documents in insertion order (find_one returns the first  *)
(* match).  Time is the value of datetime.utcnow() in minutes.             *)
(***************************************************************************)
EXTENDS Integers, Sequences, FiniteSets, TLC

VARIABLES
    now,             \* datetime.utcnow(), in minutes
    resp,            \* the answer of the last handler or function call
    input,           \* the argument of the pure function under test
    otp_store,       \* auth.otp_store: phone -> [otp, expires_at]
    otp_seen,        \* history: phone -> fate of the code last issued to it
    users,           \* db.users
    payments,        \* db.payments
    enrollments,     \* db.enrollments
    coach_sessions,  \* db.coach_sessions
    coach_checkins,  \* db.coach_checkins
    leads,           \* db.leads
    crm_sync_log,    \* db.crm_sync_log
    bulk_log,        \* history: the last create_bulk_leads request and its time
    attendance,      \* db.attendance
    campaigns,       \* db.campaigns
    pause_hist       \* history: enrollment id -> pauses so far, time of the open pause

vars == <<now, resp, input, otp_store, otp_seen, users, payments, enrollments,
          coach_sessions, coach_checkins, leads, crm_sync_log, bulk_log,
          attendance, campaigns, pause_hist>>

otpVars   == <<otp_store, otp_seen, users>>
payVars   == <<payments, enrollments>>
geoVars   == <<coach_sessions, coach_checkins>>
leadVars  == <<leads, crm_sync_log, bulk_log>>
opsVars   == <<attendance, campaigns, pause_hist>>

NoResp == [op |-> "none"]
None   == "None"            \* Python's None / a BSON null

MinutesPerDay == 24 * 60

(***************************************************************************)
(* Generic helpers for documents and collections                           *)
(***************************************************************************)

\* dict.get(key, default) on a record whose missing keys are not in its DOMAIN
Get(d, k, default) == IF k \in DOMAIN d THEN d[k] ELSE default

\* find_one: the first of the matching positions of a collection, 0 when none
FirstIndex(matching) ==
    IF matching = {} THEN 0
    ELSE CHOOSE i \in matching : \A j \in matching : i <= j

\* d with the fields of upd set ($set)
SetFields(d, upd) ==
    [k \in DOMAIN d \cup DOMAIN upd |-> IF k \in DOMAIN upd THEN upd[k] ELSE d[k]]

\* f without the key k
DelKey(f, k) == [q \in DOMAIN f \ {k} |-> f[q]]

(***************************************************************************)
(* OTP login (auth.py, server.py)                                          *)
(***************************************************************************)

MaxMinutes == 12
Phones == {"9000000001", "9000000002"}
Otps   == {"111111", "222222"}

OTP_EXPIRE_MINUTES == 10

store_otp(store, t, phone, otp, expires_in_minutes) ==
    [q \in DOMAIN store \cup {phone} |->
        IF q = phone
        THEN [otp |-> otp, expires_at |-> t + expires_in_minutes]
        ELSE store[q]]

\* verify_otp with every expiry check removed
verify_otp_no_expiry(store, t, phone, otp) ==
    IF phone \notin DOMAIN store
    THEN [ret |-> FALSE, store |-> store]
    ELSE IF store[phone].otp = otp
         THEN [ret |-> TRUE, store |-> DelKey(store, phone)]
         ELSE [ret |-> FALSE, store |-> store]

\* verify_otp that keeps the entry after a successful verification
verify_otp_keep(store, t, phone, otp) ==
    IF phone \notin DOMAIN store
    THEN [ret |-> FALSE, store |-> store]
    ELSE IF t > store[phone].expires_at
         THEN [ret |-> FALSE, store |-> DelKey(store, phone)]
         ELSE IF store[phone].otp = otp
              THEN [ret |-> TRUE, store |-> store]
              ELSE [ret |-> FALSE, store |-> store]

\* the return value and the otp_store it leaves
verify_otp(store, t, phone, otp) ==
    IF phone \notin DOMAIN store
    THEN [ret |-> FALSE, store |-> store]
    ELSE IF t > store[phone].expires_at
         THEN [ret |-> FALSE, store |-> DelKey(store, phone)]
         ELSE IF store[phone].otp = otp
              THEN [ret |-> TRUE, store |-> DelKey(store, phone)]
              ELSE [ret |-> FALSE, store |-> store]

\* the fate of the code last issued to phone once verify_otp has run
OtpFate(store, t, phone, otp, seen) ==
    IF phone \notin DOMAIN store THEN seen
    ELSE IF t > store[phone].expires_at
         THEN [seen EXCEPT ![phone] = [otp |-> store[phone].otp, fate |-> "expired"]]
         ELSE IF verify_otp(store, t, phone, otp).ret
              THEN [seen EXCEPT ![phone] = [otp |-> store[phone].otp, fate |-> "accepted"]]
              ELSE seen

send_otp(phone) ==
    \E otp \in Otps :
        /\ otp_store' = store_otp(otp_store, now, phone, otp, OTP_EXPIRE_MINUTES)
        /\ otp_seen' = [otp_seen EXCEPT ![phone] = [otp |-> otp, fate |-> "pending"]]
        /\ resp' = [op |-> "send_otp", phone |-> phone, success |-> TRUE, dev_otp |-> otp]
        /\ UNCHANGED <<now, input, opsVars, users, payVars, geoVars, leadVars>>

UserByPhone(phone) == FirstIndex({i \in 1..Len(users) : users[i].phone = phone})

verify_otp_endpoint(phone, otp) ==
    LET r == verify_otp(otp_store, now, phone, otp) IN
    /\ otp_store' = r.store
    /\ otp_seen' = OtpFate(otp_store, now, phone, otp, otp_seen)
    /\ IF ~r.ret
       THEN /\ resp' = [op |-> "verify_otp", phone |-> phone, otp |-> otp,
                        status |-> 400, detail |-> "Invalid or expired OTP"]
            /\ UNCHANGED users
       ELSE LET i == UserByPhone(phone)
                new_user == [id |-> Len(users) + 1, phone |-> phone, role |-> "parent"]
            IN  /\ users' = IF i = 0 THEN Append(users, new_user) ELSE users
                /\ resp' = [op |-> "verify_otp", phone |-> phone, otp |-> otp,
                            status |-> 200,
                            user |-> IF i = 0 THEN new_user.id ELSE users[i].id]
    /\ UNCHANGED <<now, input, opsVars, payVars, geoVars, leadVars>>

TickMinute ==
    /\ now < MaxMinutes
    /\ now' = now + 1
    /\ UNCHANGED <<resp, input, opsVars, otpVars, payVars, geoVars, leadVars>>

InitCommon ==
    /\ now = 0
    /\ resp = NoResp
    /\ input = NoResp
    /\ otp_store = <<>>
    /\ otp_seen = [p \in Phones |-> [otp |-> None, fate |-> "none"]]
    /\ users = <<>>
    /\ payments = <<>>
    /\ enrollments = <<>>
    /\ coach_sessions = <<>>
    /\ coach_checkins = <<>>
    /\ leads = <<>>
    /\ crm_sync_log = <<>>
    /\ bulk_log = NoResp
    /\ attendance = <<>>
    /\ campaigns = <<>>
    /\ pause_hist = <<>>

InitOtp == InitCommon

NextOtp ==
    \/ \E p \in Phones : send_otp(p)
    \/ \E p \in Phones, o \in Otps : verify_otp_endpoint(p, o)
    \/ TickMinute

SpecOtp == InitOtp /\ [][NextOtp]_vars

\* C3: an accepted OTP is single-use.  Once verify_otp has returned True for a
\* phone, and until store_otp runs again for it, the phone has no entry in
\* otp_store and verify_otp returns False for it whatever code is offered.
C3_OtpSingleUse ==
    \A p \in Phones :
        otp_seen[p].fate = "accepted" =>
            /\ p \notin DOMAIN otp_store
            /\ \A o \in Otps : ~verify_otp(otp_store, now, p, o).ret

\* the accepted code was offered again and refused
C3_Witness ==
    /\ resp.op = "verify_otp"
    /\ resp.status = 400
    /\ otp_seen[resp.phone].fate = "accepted"
    /\ otp_seen[resp.phone].otp = resp.otp

\* C4: store_otp sets expires_at ten minutes ahead; a verify_otp call made
\* after expires_at returns False even for the matching code and removes
\* the entry, and from then on the phone has no entry to verify against.
C4_OtpExpires ==
    [][ /\ \A p \in Phones :
              send_otp(p) => otp_store'[p].expires_at = now + 10
        /\ \A p \in Phones, o \in Otps :
              ( /\ verify_otp_endpoint(p, o)
                /\ p \in DOMAIN otp_store
                /\ now > otp_store[p].expires_at )
              => /\ resp'.status = 400
                 /\ p \notin DOMAIN otp_store'
                 /\ \A o2 \in Otps : ~verify_otp(otp_store', now', p, o2).ret
      ]_vars

\* the matching code was offered after its expiry and refused
C4_Witness ==
    /\ resp.op = "verify_otp"
    /\ resp.status = 400
    /\ otp_seen[resp.phone].fate = "expired"
    /\ otp_seen[resp.phone].otp = resp.otp
    /\ resp.phone \notin DOMAIN otp_store

(***************************************************************************)
(* Payments (server.py, razorpay_utils.py, models.py)                      *)
(***************************************************************************)

MaxPayments == 3

\* db.children, db.programs, db.classes as seeded; no modelled handler writes them
children == <<[id |-> "child1", brand |-> "Tumble Gym", parent_id |-> "user1"]>>
programs == <<[id |-> "prog1", brand |-> "Tumble Gym"]>>
classes  == <<[id |-> "class1", coach_id |-> "user1"],
              [id |-> "class2", coach_id |-> "coach2"]>>

ChildIds     == {"child1", "nochild"}
PlanTypes    == {"2day_6month", "trial", "3_month"}
PaymentIds   == {"pay_A"}
OrderAmounts == {12500}
OrderPlanTypes == {"2day_6month"}

\* the JWT payload get_current_user returns: what create_access_token signed
create_access_token(data) == SetFields(data, [exp |-> "exp"])
CurrentUsers ==
    {create_access_token([sub |-> "user1", role |-> r]) : r \in {"parent", "coach"}}

\* the HMAC-SHA256 of order_id|payment_id under the key secret
ExpectedSignature(order_id, payment_id) == <<"hmac", order_id, payment_id>>

Signatures(order_id, payment_id) ==
    {ExpectedSignature(order_id, payment_id), <<"forged">>}

\* a signature check that accepts everything
verify_payment_signature_accept_all(order_id, payment_id, signature) == TRUE

verify_payment_signature(order_id, payment_id, signature) ==
    signature = ExpectedSignature(order_id, payment_id)

\* An amount is <<rupees, hundredths>>, the decimal the caller wrote.  The
\* amounts under two rupees whose double, multiplied by 100, lies just below
\* the whole number of paise (0.29 * 100 = 28.999999999999996)
TruncatedAmounts ==
    {<<0, 29>>, <<0, 57>>, <<0, 58>>, <<1, 13>>, <<1, 14>>, <<1, 15>>, <<1, 16>>}

\* int(amount * 100): exact for whole rupees, truncated for the rest
amount_in_paise(amount) ==
    IF amount \in TruncatedAmounts
    THEN amount[1] * 100 + amount[2] - 1
    ELSE amount[1] * 100 + amount[2]

\* what client.order.create can do: return an order or raise
Gateways(order_id) ==
    {[ok |-> TRUE, id |-> order_id], [ok |-> FALSE, error |-> "BadRequestError"]}

\* create_order that submits the rupee amount as it is
create_order_rupees(amount, receipt, gateway) ==
    LET base == [amount |-> amount[1], currency |-> "INR", payment_capture |-> 1]
    IN  [request |-> IF receipt # "" THEN SetFields(base, [receipt |-> receipt])
                     ELSE base,
         result |-> IF gateway.ok
                    THEN [success |-> TRUE, order_id |-> gateway.id,
                          amount |-> amount, currency |-> "INR"]
                    ELSE [success |-> FALSE, error |-> gateway.error]]

\* request: the data given to client.order.create; result: what is returned
create_order(amount, receipt, gateway) ==
    LET base == [amount |-> amount_in_paise(amount), currency |-> "INR",
                 payment_capture |-> 1]
    IN  [request |-> IF receipt # "" THEN SetFields(base, [receipt |-> receipt])
                     ELSE base,
         result |-> IF gateway.ok
                    THEN [success |-> TRUE, order_id |-> gateway.id,
                          amount |-> amount, currency |-> "INR"]
                    ELSE [success |-> FALSE, error |-> gateway.error]]

\* f"pay_{order_data.child_id[:28]}"
Receipt(child_id) ==
    CASE child_id = "child1"  -> "pay_child1"
      [] child_id = "nochild" -> "pay_nochild"

create_payment_order(order_data, current_user) ==
    /\ Len(payments) < MaxPayments
    /\ \E gateway \in Gateways(<<"order", Len(payments) + 1>>) :
        LET receipt  == Receipt(order_data.child_id)
            order_result == create_order(<<order_data.amount, 0>>, receipt, gateway)
            order_id == order_result.result.order_id
            payment  == [id |-> Len(payments) + 1,
                         enrollment_id |-> <<"temp", order_data.child_id, now>>,
                         amount |-> order_data.amount,
                         total_amount |-> order_data.amount,
                         razorpay_order_id |-> order_id,
                         razorpay_payment_id |-> None,
                         razorpay_signature |-> None,
                         status |-> "pending",
                         child_id |-> order_data.child_id,
                         plan_type |-> order_data.plan_type]
        IN  IF ~order_result.result.success
            THEN /\ resp' = [op |-> "create_payment_order", status |-> 500]
                 /\ UNCHANGED payments
            ELSE /\ payments' = Append(payments, payment)
                 /\ resp' = [op |-> "create_payment_order", status |-> 200,
                             order_id |-> order_id, amount |-> order_data.amount,
                             payment_id |-> payment.id,
                             order |-> order_result.request]
    /\ UNCHANGED <<now, input, opsVars, otpVars, enrollments, geoVars, leadVars>>

\* int(duration_str.replace('month', '')) of plan_type.split('_')
duration_months(plan_type) ==
    CASE plan_type = "2day_6month" -> [error |-> "", months |-> 6]
      [] plan_type = "trial"       -> [error |-> "", months |-> 3]
      [] plan_type = "3_month"     -> [error |-> "ValueError"]

PaymentByOrder(order_id) ==
    FirstIndex({i \in 1..Len(payments) : payments[i].razorpay_order_id = order_id})

PaymentById(id) == FirstIndex({i \in 1..Len(payments) : payments[i].id = id})

ChildById(id) == FirstIndex({i \in 1..Len(children) : children[i].id = id})

\* the fields Enrollment declares without a default
EnrollmentRequired == {"child_id", "class_id", "plan_type", "start_date", "end_date"}

\* Enrollment(**kwargs).dict(), or the validation error
Enrollment(id, kwargs) ==
    IF ~(EnrollmentRequired \subseteq DOMAIN kwargs) THEN [error |-> "ValidationError"]
    ELSE [error |-> "", id |-> id, child_id |-> kwargs.child_id, class_id |-> kwargs.class_id,
          plan_type |-> kwargs.plan_type, start_date |-> kwargs.start_date,
          end_date |-> kwargs.end_date, auto_renew |-> FALSE,
          status |-> Get(kwargs, "status", "active"),
          makeup_credits |-> 0, payment_id |-> None]

\* update_one({"id": id}, {"$set": upd}) on db.payments
UpdatePayment(id, upd) ==
    LET i == PaymentById(id) IN
    IF i = 0 THEN payments ELSE [payments EXCEPT ![i] = SetFields(payments[i], upd)]

ServerError(detail) == [op |-> "verify_payment", status |-> 500, detail |-> detail]

verify_payment_endpoint(verify_data, current_user) ==
    LET i == PaymentByOrder(verify_data.razorpay_order_id) IN
    /\ IF i = 0
       THEN /\ resp' = [op |-> "verify_payment", status |-> 404,
                        detail |-> "Payment not found"]
            /\ UNCHANGED payVars
       ELSE IF ~verify_payment_signature(verify_data.razorpay_order_id,
                                         verify_data.razorpay_payment_id,
                                         verify_data.razorpay_signature)
       THEN /\ payments' = UpdatePayment(payments[i].id, [status |-> "failed"])
            /\ resp' = [op |-> "verify_payment", status |-> 400,
                        detail |-> "Payment verification failed"]
            /\ UNCHANGED enrollments
       ELSE IF duration_months(verify_data.plan_type).error # ""
       THEN /\ resp' = ServerError("ValueError")
            /\ UNCHANGED payVars
       ELSE IF ChildById(verify_data.child_id) = 0
       THEN /\ resp' = [op |-> "verify_payment", status |-> 404,
                        detail |-> "Child not found"]
            /\ UNCHANGED payVars
       ELSE IF "id" \notin DOMAIN current_user
       THEN /\ resp' = ServerError("KeyError: 'id'")
            /\ UNCHANGED payVars
       ELSE LET start_date == now
                end_date == now + duration_months(verify_data.plan_type).months * 30 * MinutesPerDay
                enrollment ==
                    Enrollment(Len(enrollments) + 1,
                               [child_id |-> verify_data.child_id,
                                program_id |-> programs[1].id,
                                class_id |-> classes[1].id,
                                parent_id |-> current_user.id,
                                start_date |-> start_date,
                                end_date |-> end_date,
                                status |-> "active",
                                payment_status |-> "success"])
            IN  IF enrollment.error # ""
                THEN /\ resp' = ServerError("ValidationError")
                     /\ UNCHANGED payVars
                ELSE /\ enrollments' = Append(enrollments, DelKey(enrollment, "error"))
                     /\ payments' =
                          UpdatePayment(payments[i].id,
                              [enrollment_id |-> enrollment.id,
                               razorpay_payment_id |-> verify_data.razorpay_payment_id,
                               razorpay_signature |-> verify_data.razorpay_signature,
                               status |-> "success"])
                     /\ resp' = [op |-> "verify_payment", status |-> 200,
                                 success |-> TRUE,
                                 message |-> "Payment verified and enrollment created",
                                 enrollment_id |-> enrollment.id,
                                 payment_id |-> payments[i].id]
    /\ UNCHANGED <<now, input, opsVars, otpVars, geoVars, leadVars>>

OrderInputs ==
    [child_id : ChildIds, amount : OrderAmounts, plan_type : OrderPlanTypes]

OrderIds == {<<"order", n>> : n \in 1..(MaxPayments + 1)}

VerifyInputs ==
    UNION {[razorpay_order_id : {o}, razorpay_payment_id : {p},
            razorpay_signature : Signatures(o, p), child_id : ChildIds,
            plan_type : PlanTypes, amount : OrderAmounts] :
           o \in OrderIds, p \in PaymentIds}

InitPay == InitCommon

NextPay ==
    \/ \E od \in OrderInputs, cu \in CurrentUsers : create_payment_order(od, cu)
    \/ \E vd \in VerifyInputs, cu \in CurrentUsers : verify_payment_endpoint(vd, cu)

SpecPay == InitPay /\ [][NextPay]_vars

\* C1: a verify_payment_endpoint call for an existing payment, with the
\* verifying signature and an existing child, inserts one active enrollment
\* for the child, sets the payment to success with the enrollment id, the
\* razorpay_payment_id and the signature, and answers
\* "Payment verified and enrollment created".
C1_VerifiedPaymentEnrolls ==
    [][ \A vd \in VerifyInputs, cu \in CurrentUsers :
          ( /\ verify_payment_endpoint(vd, cu)
            /\ PaymentByOrder(vd.razorpay_order_id) # 0
            /\ vd.razorpay_signature =
                  ExpectedSignature(vd.razorpay_order_id, vd.razorpay_payment_id)
            /\ ChildById(vd.child_id) # 0 )
          => LET i == PaymentByOrder(vd.razorpay_order_id) IN
             /\ Len(enrollments') = Len(enrollments) + 1
             /\ enrollments'[Len(enrollments')].status = "active"
             /\ enrollments'[Len(enrollments')].child_id = vd.child_id
             /\ payments'[i].status = "success"
             /\ payments'[i].enrollment_id = enrollments'[Len(enrollments')].id
             /\ payments'[i].razorpay_payment_id = vd.razorpay_payment_id
             /\ payments'[i].razorpay_signature = vd.razorpay_signature
             /\ resp'.status = 200
             /\ resp'.message = "Payment verified and enrollment created"
      ]_vars

\* C2: a verify_payment_endpoint call whose signature does not verify sets
\* the payment found by the order id to failed, answers 400 "Payment
\* verification failed" and inserts no enrollment; a call whose order id
\* matches no payment answers 404 and changes no collection.
C2_BadSignatureFails ==
    [][ \A vd \in VerifyInputs, cu \in CurrentUsers :
          verify_payment_endpoint(vd, cu) =>
            LET i == PaymentByOrder(vd.razorpay_order_id) IN
            /\ ( i # 0 /\ vd.razorpay_signature #
                    ExpectedSignature(vd.razorpay_order_id, vd.razorpay_payment_id) )
               => /\ payments'[i].status = "failed"
                  /\ \A j \in 1..Len(payments) : j # i => payments'[j] = payments[j]
                  /\ Len(payments') = Len(payments)
                  /\ resp'.status = 400
                  /\ resp'.detail = "Payment verification failed"
                  /\ enrollments' = enrollments
            /\ i = 0
               => /\ resp'.status = 404
                  /\ UNCHANGED <<payments, enrollments>>
      ]_vars

\* a forged signature was refused and the payment is marked failed, and an
\* unknown order id was refused while a failed payment is on record
C2_Witness ==
    /\ resp.op = "verify_payment"
    /\ resp.status = 400
    /\ \E i \in 1..Len(payments) : payments[i].status = "failed"
    /\ enrollments = <<>>

(***************************************************************************)
(* Coach geofence check-in (coach_features_routes.py)                      *)
(* Coordinates are in microdegrees and distances in centimetres.  A null   *)
(* field of a document is a key outside its DOMAIN: center.get(key) and    *)
(* the filter {key: None} treat a null and a missing field alike.          *)
(***************************************************************************)

MaxCheckins == 2
MaxGeoDays  == 1

\* db.locations: the first centre as seeded, a centre that carries its own
\* geofence_radius, and a centre saved without coordinates
locations ==
    << [id |-> "c1", lat |-> 13035800, lng |-> 77639400],
       [id |-> "c2", lat |-> 12925000, lng |-> 77554000, geofence_radius |-> 50],
       [id |-> "c3"] >>

CenterIds == {"c1", "c2", "c3", "nocenter"}

\* where a coach may stand: at c1, 99.96 m and 100.08 m north of c1,
\* 33.36 m north of c2 and 78.03 m east of c2
GeoPoints ==
    { <<13035800, 77639400>>, <<13036699, 77639400>>, <<13036700, 77639400>>,
      <<12925300, 77554000>>, <<12925000, 77554720>> }

\* R * 2 * atan2(sqrt(a), sqrt(1 - a)) of the Haversine formula with
\* R = 6371000 m, evaluated at the points of GeoPoints against the two
\* centres that have coordinates, rounded to the centimetre
calculate_distance(lat1, lon1, lat2, lon2) ==
    LET p == <<lat1, lon1>>
        c == <<lat2, lon2>>
        c1 == <<13035800, 77639400>>
        c2 == <<12925000, 77554000>>
    IN  CASE p = <<13035800, 77639400>> /\ c = c1 -> 0
          [] p = <<13036699, 77639400>> /\ c = c1 -> 9996
          [] p = <<13036700, 77639400>> /\ c = c1 -> 10008
          [] p = <<12925300, 77554000>> /\ c = c1 -> 1538169
          [] p = <<12925000, 77554720>> /\ c = c1 -> 1536163
          [] p = <<13035800, 77639400>> /\ c = c2 -> 1540836
          [] p = <<13036699, 77639400>> /\ c = c2 -> 1548839
          [] p = <<13036700, 77639400>> /\ c = c2 -> 1548848
          [] p = <<12925300, 77554000>> /\ c = c2 -> 3336
          [] p = <<12925000, 77554720>> /\ c = c2 -> 7803

\* a radius lookup that ignores the centre's own geofence_radius
geofence_radius_default_only(center) == 100

\* center.get("geofence_radius", 100), in metres
geofence_radius(center) == Get(center, "geofence_radius", 100)

LocationById(id) == FirstIndex({i \in 1..Len(locations) : locations[i].id = id})

\* not center_lat or not center_lng
LocationNotConfigured(center) ==
    \/ "lat" \notin DOMAIN center
    \/ "lng" \notin DOMAIN center
    \/ center.lat = 0
    \/ center.lng = 0

today_start(t) == t - (t % MinutesPerDay)

\* the coach's session of today that is not checked out
ActiveSession(coach_id, t) ==
    FirstIndex({i \in 1..Len(coach_sessions) :
        /\ coach_sessions[i].coach_id = coach_id
        /\ coach_sessions[i].date >= today_start(t)
        /\ coach_sessions[i].date < today_start(t) + MinutesPerDay
        /\ "check_out_time" \notin DOMAIN coach_sessions[i]})

\* update_one(filter, {"$set": upd}, upsert=True) on db.coach_sessions
UpsertSession(coach_id, t, upd) ==
    LET i == ActiveSession(coach_id, t) IN
    IF i = 0
    THEN Append(coach_sessions, SetFields([coach_id |-> coach_id], upd))
    ELSE [coach_sessions EXCEPT ![i] = SetFields(coach_sessions[i], upd)]

geofence_check_in(checkin_data, current_user) ==
    LET ci == LocationById(checkin_data.center_id) IN
    /\ Len(coach_checkins) < MaxCheckins
    /\ IF Get(current_user, "role", None) # "coach"
       THEN /\ resp' = [op |-> "geofence_check_in", status |-> 403,
                        detail |-> "Only coaches can check in"]
            /\ UNCHANGED geoVars
       ELSE IF ci = 0
       THEN /\ resp' = [op |-> "geofence_check_in", status |-> 404,
                        detail |-> "Center not found"]
            /\ UNCHANGED geoVars
       ELSE IF LocationNotConfigured(locations[ci])
       THEN /\ resp' = [op |-> "geofence_check_in", status |-> 400,
                        detail |-> "Center location not configured"]
            /\ UNCHANGED geoVars
       ELSE LET center == locations[ci]
                distance == calculate_distance(checkin_data.latitude,
                                               checkin_data.longitude,
                                               center.lat, center.lng)
                radius == geofence_radius(center)
                within_geofence == distance <= radius * 100
                checkin_log == [coach_id |-> current_user.sub,
                                center_id |-> checkin_data.center_id,
                                latitude |-> checkin_data.latitude,
                                longitude |-> checkin_data.longitude,
                                distance_from_center |-> distance,
                                within_geofence |-> within_geofence,
                                timestamp |-> now,
                                check_type |-> "check_in"]
            IN  /\ coach_checkins' = Append(coach_checkins, checkin_log)
                /\ IF ~within_geofence
                   THEN /\ resp' = [op |-> "geofence_check_in", status |-> 200,
                                    success |-> FALSE, distance |-> distance,
                                    required_distance |-> radius,
                                    within_geofence |-> FALSE]
                        /\ UNCHANGED coach_sessions
                   ELSE /\ coach_sessions' =
                             UpsertSession(current_user.sub, now,
                                 [coach_id |-> current_user.sub,
                                  center_id |-> checkin_data.center_id,
                                  date |-> now,
                                  check_in_time |-> now,
                                  check_in_location |->
                                      <<checkin_data.latitude, checkin_data.longitude>>])
                        /\ resp' = [op |-> "geofence_check_in", status |-> 200,
                                    success |-> TRUE, distance |-> distance,
                                    within_geofence |-> TRUE,
                                    check_in_time |-> now]
    /\ UNCHANGED <<now, input, opsVars, otpVars, payVars, leadVars>>

geofence_check_out(checkout_data, current_user) ==
    LET i == ActiveSession(Get(current_user, "sub", None), now) IN
    /\ Len(coach_checkins) < MaxCheckins
    /\ IF Get(current_user, "role", None) # "coach"
       THEN /\ resp' = [op |-> "geofence_check_out", status |-> 403,
                        detail |-> "Only coaches can check out"]
            /\ UNCHANGED geoVars
       ELSE IF i = 0
       THEN /\ resp' = [op |-> "geofence_check_out", status |-> 400,
                        detail |-> "No active check-in found"]
            /\ UNCHANGED geoVars
       ELSE LET duration_minutes == now - coach_sessions[i].check_in_time IN
            /\ coach_sessions' =
                  [coach_sessions EXCEPT ![i] =
                      SetFields(coach_sessions[i],
                          [check_out_time |-> now,
                           check_out_location |->
                               <<checkout_data.latitude, checkout_data.longitude>>,
                           duration_minutes |-> duration_minutes])]
            /\ coach_checkins' =
                  Append(coach_checkins,
                      [coach_id |-> current_user.sub,
                       center_id |-> checkout_data.center_id,
                       latitude |-> checkout_data.latitude,
                       longitude |-> checkout_data.longitude,
                       timestamp |-> now,
                       check_type |-> "check_out",
                       duration_minutes |-> duration_minutes])
            /\ resp' = [op |-> "geofence_check_out", status |-> 200,
                        success |-> TRUE, check_out_time |-> now,
                        duration_minutes |-> duration_minutes]
    /\ UNCHANGED <<now, input, opsVars, otpVars, payVars, leadVars>>

TickGeoDay ==
    /\ now < MaxGeoDays * MinutesPerDay
    /\ now' = now + MinutesPerDay
    /\ UNCHANGED <<resp, input, opsVars, otpVars, payVars, geoVars, leadVars>>

CheckInInputs ==
    {[latitude |-> p[1], longitude |-> p[2], center_id |-> c] :
        p \in GeoPoints, c \in CenterIds}

CheckOutInputs ==
    {[latitude |-> 13035800, longitude |-> 77639400, center_id |-> "c1"]}

InitGeo == InitCommon

NextGeo ==
    \/ \E cd \in CheckInInputs, cu \in CurrentUsers : geofence_check_in(cd, cu)
    \/ \E cd \in CheckOutInputs, cu \in CurrentUsers : geofence_check_out(cd, cu)
    \/ TickGeoDay

SpecGeo == InitGeo /\ [][NextGeo]_vars

\* the session documents of coach_id checked in at time t at the given place
CheckedInAt(sessions, coach_id, cd, t) ==
    {i \in 1..Len(sessions) :
        /\ sessions[i].coach_id = coach_id
        /\ sessions[i].center_id = cd.center_id
        /\ sessions[i].check_in_time = t
        /\ sessions[i].check_in_location = <<cd.latitude, cd.longitude>>
        /\ "check_out_time" \notin DOMAIN sessions[i]}

\* C5: when a coach's check-in reaches the distance computation, it reports
\* success and creates or updates the coach's active session if and only if
\* the distance from the centre is at most the centre's geofence_radius
\* (100 m when the centre has none); outside the radius it answers
\* success = False, within_geofence = False and leaves coach_sessions as is.
C5_GeofenceCheckIn ==
    [][ \A cd \in CheckInInputs, cu \in CurrentUsers :
          ( /\ geofence_check_in(cd, cu)
            /\ cu.role = "coach"
            /\ LocationById(cd.center_id) # 0
            /\ ~LocationNotConfigured(locations[LocationById(cd.center_id)]) )
          => LET center == locations[LocationById(cd.center_id)]
                 d == calculate_distance(cd.latitude, cd.longitude,
                                         center.lat, center.lng)
                 r == IF "geofence_radius" \in DOMAIN center
                      THEN center.geofence_radius ELSE 100
                 inside == d <= r * 100
             IN  /\ resp'.success <=> inside
                 /\ inside =>
                      /\ CheckedInAt(coach_sessions', cu.sub, cd, now) # {}
                      /\ \/ Len(coach_sessions') = Len(coach_sessions) + 1
                         \/ /\ Len(coach_sessions') = Len(coach_sessions)
                            /\ ActiveSession(cu.sub, now) # 0
                 /\ ~inside =>
                      /\ resp'.success = FALSE
                      /\ resp'.within_geofence = FALSE
                      /\ coach_sessions' = coach_sessions
      ]_vars

\* a check-in from outside the radius was refused while the session of an
\* earlier check-in from inside is on record
C5_Witness ==
    /\ resp.op = "geofence_check_in"
    /\ resp.status = 200
    /\ resp.success = FALSE
    /\ resp.within_geofence = FALSE
    /\ Len(coach_sessions) = 1
    /\ Len(coach_checkins) = 2

(***************************************************************************)
(* Invoice arithmetic (invoice_generator.py)                               *)
(* Money is a decimal number held in paise, a percentage is held in        *)
(* tenths of a percent, and round(x, 2) is rounding to the paisa.          *)
(***************************************************************************)

MaxRupees == 60

DEFAULT_GST_RATE == 180

\* round(x, 2) of x = n / per paise, ties to even
Round2(n, per) ==
    LET q == n \div per
        r == n % per
    IN  IF 2 * r > per \/ (2 * r = per /\ q % 2 = 1) THEN q + 1 ELSE q

\* calculate_gst charging the whole rate for each of CGST and SGST
calculate_gst_unsplit(base_amount, gst_rate) ==
    LET cgst_amount == Round2(base_amount * gst_rate, 1000)
        sgst_amount == Round2(base_amount * gst_rate, 1000)
    IN  [base_amount |-> base_amount,
         cgst_rate |-> gst_rate, cgst_amount |-> cgst_amount,
         sgst_rate |-> gst_rate, sgst_amount |-> sgst_amount,
         total_gst |-> cgst_amount + sgst_amount,
         total_amount |-> Round2(base_amount + cgst_amount + sgst_amount, 1)]

calculate_gst(base_amount, gst_rate) ==
    LET cgst_rate == gst_rate \div 2
        sgst_rate == gst_rate \div 2
        cgst_amount == Round2(base_amount * cgst_rate, 1000)
        sgst_amount == Round2(base_amount * sgst_rate, 1000)
        total_gst == cgst_amount + sgst_amount
        total_amount == base_amount + total_gst
    IN  [base_amount |-> base_amount,
         cgst_rate |-> cgst_rate, cgst_amount |-> cgst_amount,
         sgst_rate |-> sgst_rate, sgst_amount |-> sgst_amount,
         total_gst |-> total_gst,
         total_amount |-> Round2(total_amount, 1)]

(***************************************************************************)
(* number_to_words.  A string is the sequence of the pieces it was         *)
(* concatenated from, each a word or a single space; num is the pair       *)
(* <<rupees, paise>> of its integer part and its two decimals.             *)
(***************************************************************************)

ones  == <<"One", "Two", "Three", "Four", "Five", "Six", "Seven", "Eight", "Nine">>
tens  == <<"", "Twenty", "Thirty", "Forty", "Fifty", "Sixty", "Seventy", "Eighty",
           "Ninety">>
teens == <<"Ten", "Eleven", "Twelve", "Thirteen", "Fourteen", "Fifteen",
           "Sixteen", "Seventeen", "Eighteen", "Nineteen">>

RECURSIVE convert_below_thousand(_)
convert_below_thousand(n) ==
    IF n = 0 THEN <<>>
    ELSE IF n < 10 THEN <<ones[n]>>
    ELSE IF n < 20 THEN <<teens[n - 10 + 1]>>
    ELSE IF n < 100
    THEN <<tens[n \div 10]>> \o (IF n % 10 # 0 THEN <<" ", ones[n % 10]>> ELSE <<>>)
    ELSE <<ones[n \div 100], " ", "Hundred">>
         \o (IF n % 100 # 0 THEN <<" ">> \o convert_below_thousand(n % 100) ELSE <<>>)

\* " ".join(parts)
RECURSIVE JoinSpace(_)
JoinSpace(parts) ==
    IF parts = <<>> THEN <<>>
    ELSE IF Len(parts) = 1 THEN parts[1]
    ELSE parts[1] \o <<" ">> \o JoinSpace(Tail(parts))

\* number_to_words with the lakh group computed from the whole amount
number_to_words_lakh_slip(num) ==
    LET rupees == num[1]
        crores == rupees \div 10000000
        lakhs == rupees \div 100000
        thousands == (rupees % 100000) \div 1000
        hundreds == rupees % 1000
        result_parts ==
            (IF crores > 0 THEN <<convert_below_thousand(crores) \o <<" ", "Crore">> >> ELSE <<>>)
            \o (IF lakhs > 0 THEN <<convert_below_thousand(lakhs % 1000) \o <<" ", "Lakh">> >> ELSE <<>>)
            \o (IF thousands > 0 THEN <<convert_below_thousand(thousands) \o <<" ", "Thousand">> >> ELSE <<>>)
            \o (IF hundreds > 0 THEN <<convert_below_thousand(hundreds)>> ELSE <<>>)
    IN  (IF rupees = 0 THEN <<"Zero", " ", "Rupees">>
         ELSE JoinSpace(result_parts) \o <<" ", "Rupees">>)
        \o <<" ", "Only">>

number_to_words(num) ==
    LET rupees == num[1]
        paise == num[2]
        crores == rupees \div 10000000
        lakhs == (rupees % 10000000) \div 100000
        thousands == (rupees % 100000) \div 1000
        hundreds == rupees % 1000
        result_parts ==
            (IF crores > 0 THEN <<convert_below_thousand(crores) \o <<" ", "Crore">> >> ELSE <<>>)
            \o (IF lakhs > 0 THEN <<convert_below_thousand(lakhs) \o <<" ", "Lakh">> >> ELSE <<>>)
            \o (IF thousands > 0 THEN <<convert_below_thousand(thousands) \o <<" ", "Thousand">> >> ELSE <<>>)
            \o (IF hundreds > 0 THEN <<convert_below_thousand(hundreds)>> ELSE <<>>)
        result == IF rupees = 0 THEN <<"Zero", " ", "Rupees">>
                  ELSE JoinSpace(result_parts) \o <<" ", "Rupees">>
    IN  result
        \o (IF paise > 0
            THEN <<" ", "and", " ">> \o convert_below_thousand(paise) \o <<" ", "Paise">>
            ELSE <<>>)
        \o <<" ", "Only">>

\* the "financial" block of generate_invoice_data; the other blocks copy or
\* format the arguments
generate_invoice_data(base_amount) ==
    LET gst_details == calculate_gst(base_amount, DEFAULT_GST_RATE) IN
    [base_amount |-> base_amount,
     cgst_rate |-> gst_details.cgst_rate, cgst_amount |-> gst_details.cgst_amount,
     sgst_rate |-> gst_details.sgst_rate, sgst_amount |-> gst_details.sgst_amount,
     total_gst |-> gst_details.total_gst,
     total_amount |-> gst_details.total_amount,
     amount_in_words |->
         number_to_words(<<gst_details.total_amount \div 100,
                           gst_details.total_amount % 100>>)]

MaxWordSamples == 150
Crore == 10000000

BaseAmounts == {100 * n : n \in 0..MaxRupees} \cup {1250000, 3400000}
GstRates == {DEFAULT_GST_RATE, 120}

WordAmounts ==
    (0..MaxRupees)
    \cup {(i * 7654321) % (100 * Crore) : i \in 1..MaxWordSamples}
    \cup {100, 101, 110, 111, 999, 1000, 1001, 10000, 99999, 100000, 100001,
          1900000, 9999999, Crore, Crore + 1, 99 * Crore, 100 * Crore - 1}

PureInputs ==
    [fn : {"calculate_gst"}, base_amount : BaseAmounts, gst_rate : GstRates]
    \cup [fn : {"generate_invoice_data"}, base_amount : BaseAmounts]
    \cup [fn : {"number_to_words"}, num : WordAmounts \X {0, 5, 50}]

Call_calculate_gst ==
    /\ input.fn = "calculate_gst"
    /\ resp' = [op |-> "calculate_gst",
                result |-> calculate_gst(input.base_amount, input.gst_rate)]
    /\ UNCHANGED <<now, input, opsVars, otpVars, payVars, geoVars, leadVars>>

Call_generate_invoice_data ==
    /\ input.fn = "generate_invoice_data"
    /\ resp' = [op |-> "generate_invoice_data",
                financial |-> generate_invoice_data(input.base_amount)]
    /\ UNCHANGED <<now, input, opsVars, otpVars, payVars, geoVars, leadVars>>

Call_number_to_words ==
    /\ input.fn = "number_to_words"
    /\ resp' = [op |-> "number_to_words", result |-> number_to_words(input.num)]
    /\ UNCHANGED <<now, input, opsVars, otpVars, payVars, geoVars, leadVars>>

InitPure ==
    /\ input \in PureInputs
    /\ now = 0
    /\ resp = NoResp
    /\ otp_store = <<>>
    /\ otp_seen = [p \in Phones |-> [otp |-> None, fate |-> "none"]]
    /\ users = <<>>
    /\ payments = <<>>
    /\ enrollments = <<>>
    /\ coach_sessions = <<>>
    /\ coach_checkins = <<>>
    /\ leads = <<>>
    /\ crm_sync_log = <<>>
    /\ bulk_log = NoResp
    /\ attendance = <<>>
    /\ campaigns = <<>>
    /\ pause_hist = <<>>

NextPure ==
    \/ Call_calculate_gst
    \/ Call_generate_invoice_data
    \/ Call_number_to_words

SpecPure == InitPure /\ [][NextPure]_vars

\* the 18 % split of a whole-rupee base amount, stated in paise
GstSplitOf(base_amount, r) ==
    /\ r.cgst_rate = 90
    /\ r.sgst_rate = 90
    /\ r.cgst_amount = r.sgst_amount
    /\ 100 * r.cgst_amount = 9 * base_amount
    /\ r.total_gst = r.cgst_amount + r.sgst_amount
    /\ r.total_amount = base_amount + r.total_gst

Words(s) == SelectSeq(s, LAMBDA x : x # " ")

WellSpaced(s) ==
    /\ Len(s) % 2 = 1
    /\ \A i \in 1..Len(s) : (i % 2 = 0) <=> (s[i] = " ")

IndexIn(seq, w) == CHOOSE i \in 1..Len(seq) : seq[i] = w

IsOnes(w)  == \E i \in 1..9 : ones[i] = w
IsTeens(w) == \E i \in 1..10 : teens[i] = w
IsTens(w)  == \E i \in 2..9 : tens[i] = w

WordClass(w) ==
    IF IsOnes(w) THEN "O"
    ELSE IF IsTeens(w) THEN "T"
    ELSE IF IsTens(w) THEN "D"
    ELSE IF w = "Hundred" THEN "H"
    ELSE "?"

WordValue(w) ==
    IF IsOnes(w) THEN IndexIn(ones, w)
    ELSE IF IsTeens(w) THEN 9 + IndexIn(teens, w)
    ELSE IF IsTens(w) THEN 10 * IndexIn(tens, w)
    ELSE 0

\* the shapes of an English number below one thousand
GroupShapes ==
    { <<"O">>, <<"T">>, <<"D">>, <<"D", "O">>, <<"O", "H">>, <<"O", "H", "O">>,
      <<"O", "H", "T">>, <<"O", "H", "D">>, <<"O", "H", "D", "O">> }

RECURSIVE GroupValue(_, _)
GroupValue(ws, acc) ==
    IF ws = <<>> THEN acc
    ELSE IF Head(ws) = "Hundred" THEN GroupValue(Tail(ws), acc * 100)
    ELSE GroupValue(Tail(ws), acc + WordValue(Head(ws)))

SpellsBelowThousand(ws, v) ==
    /\ v > 0
    /\ v < 1000
    /\ [i \in 1..Len(ws) |-> WordClass(ws[i])] \in GroupShapes
    /\ GroupValue(ws, 0) = v

Position(ws, w) ==
    IF \E i \in 1..Len(ws) : ws[i] = w
    THEN CHOOSE i \in 1..Len(ws) : ws[i] = w /\ \A j \in 1..(i - 1) : ws[j] # w
    ELSE 0

GroupNames == << <<"Crore", 10000000>>, <<"Lakh", 100000>>, <<"Thousand", 1000>> >>

\* ws spells n as its Crore, Lakh and Thousand groups (from the k-th on), each
\* present exactly when it is not zero, followed by the last three digits
RECURSIVE SpellsIndian(_, _, _)
SpellsIndian(ws, n, k) ==
    IF k > Len(GroupNames)
    THEN IF n = 0 THEN ws = <<>> ELSE SpellsBelowThousand(ws, n)
    ELSE LET name == GroupNames[k][1]
             unit == GroupNames[k][2]
             at   == Position(ws, name)
         IN  IF n \div unit = 0
             THEN at = 0 /\ SpellsIndian(ws, n, k + 1)
             ELSE /\ at > 1
                  /\ SpellsBelowThousand(SubSeq(ws, 1, at - 1), n \div unit)
                  /\ SpellsIndian(SubSeq(ws, at + 1, Len(ws)), n % unit, k + 1)

\* C7: for a whole-rupee amount n with 0 <= n < 100 crore, number_to_words
\* returns single-spaced words that spell n in the Indian system (the Crore,
\* Lakh and Thousand groups, then the last three digits, each group an
\* English number below one thousand) followed by "Rupees Only"; n = 0
\* gives "Zero Rupees Only".
C7_NumberToWords ==
    ( resp.op = "number_to_words" /\ input.num[2] = 0 ) =>
        LET s  == resp.result
            ws == Words(s)
            n  == input.num[1]
        IN  /\ WellSpaced(s)
            /\ Len(ws) >= 3
            /\ ws[Len(ws) - 1] = "Rupees"
            /\ ws[Len(ws)] = "Only"
            /\ IF n = 0
               THEN s = <<"Zero", " ", "Rupees", " ", "Only">>
               ELSE SpellsIndian(SubSeq(ws, 1, Len(ws) - 2), n, 1)

\* 99,99,99,999 rupees were spelled out
C7_Witness ==
    /\ resp.op = "number_to_words"
    /\ input.num = <<999999999, 0>>
    /\ Words(resp.result) =
         <<"Ninety", "Nine", "Crore", "Ninety", "Nine", "Lakh", "Ninety", "Nine",
           "Thousand", "Nine", "Hundred", "Ninety", "Nine", "Rupees", "Only">>

(***************************************************************************)
(* Lead capture (leads_routes.py)                                          *)
(* A request body is a dict: a function whose DOMAIN is the keys sent.  A  *)
(* phone is the sequence of its characters; notes are the sequence of the  *)
(* pieces they were concatenated from.                                     *)
(***************************************************************************)

MaxLeads      == 2
MaxLeadTicks  == 2
MaxNotePieces == 2

LeadTick == 16 * MinutesPerDay

DUPLICATE_WINDOW_DAYS == 30

Digits == {"0", "1", "2", "3", "4", "5", "6", "7", "8", "9"}

\* re.match(r'^[6-9]\d{9}$', phone): "$" also matches before a final newline
validate_phone(phone) ==
    /\ \/ Len(phone) = 10
       \/ Len(phone) = 11 /\ phone[11] = "\n"
    /\ phone[1] \in {"6", "7", "8", "9"}
    /\ \A i \in 2..10 : phone[i] \in Digits

\* None where a phone is expected
NonePhone == <<None>>

\* does a stored field value satisfy the equality filter {field: wanted}; a
\* filter on null also matches a document without the field
FieldEquals(doc, field, wanted, null) ==
    IF wanted = null
    THEN field \notin DOMAIN doc \/ doc[field] = null
    ELSE field \in DOMAIN doc /\ doc[field] = wanted

\* check_duplicate_lead run against the collection coll at time t: the
\* position of the lead found, 0 for None
check_duplicate_lead(coll, t, phone, centre) ==
    LET thirty_days_ago == t - DUPLICATE_WINDOW_DAYS * MinutesPerDay IN
    FirstIndex({i \in 1..Len(coll) :
        /\ FieldEquals(coll[i], "phone", phone, NonePhone)
        /\ FieldEquals(coll[i], "preferred_centre", centre, None)
        /\ coll[i].created_at >= thirty_days_ago})

source_scores(source) ==
    CASE source = "referral"    -> 30
      [] source = "walkin"      -> 25
      [] source = "website"     -> 20
      [] source = "whatsapp"    -> 15
      [] source = "fb_lead_ads" -> 10
      [] source = "google_ads"  -> 10
      [] source = "event"       -> 15
      [] OTHER                  -> 0

\* the notes of the model that contain "urgent", "immediate" or "today"
UrgentNotes == {"urgent call"}

Min(a, b) == IF a <= b THEN a ELSE b

generate_lead_score(lead_data) ==
    LET consents == Get(lead_data, "consents", <<>>)
        score ==
            50
            + source_scores(Get(lead_data, "source", None))
            + (IF Get(lead_data, "notes", None) \in UrgentNotes THEN 20 ELSE 0)
            + (IF Get(consents, "whatsapp", FALSE) THEN 10 ELSE 0)
            + (IF Get(consents, "callsms", FALSE) THEN 5 ELSE 0)
            + (IF Get(lead_data, "preferred_slot", None) # None THEN 10 ELSE 0)
            + (IF Get(lead_data, "email", None) # None THEN 5 ELSE 0)
    IN  Min(score, 100)

\* "not lead_data.get(key)" for a text field and for the phone
Missing(lead_data, k) == Get(lead_data, k, None) \in {None, ""}
MissingPhone(lead_data) == Get(lead_data, "phone", NonePhone) \in {NonePhone, <<>>}

\* auto_assign_lead: the owner the background task sets, None when it sets none
AssignedOwner(lead) ==
    LET centre == Get(lead, "preferred_centre", None)
        owners == {i \in 1..Len(users) :
                      /\ users[i].role \in {"manager", "franchise"}
                      /\ centre \in Get(users[i], "assigned_locations", {})
                      /\ Get(users[i], "active", FALSE)}
    IN  IF centre \notin {None, ""} /\ owners # {}
        THEN users[FirstIndex(owners)].id
        ELSE None

create_lead(lead_data) ==
    /\ IF Missing(lead_data, "name")
       THEN /\ resp' = [op |-> "create_lead", status |-> 400, detail |-> "Name is required"]
            /\ UNCHANGED <<leads, crm_sync_log>>
       ELSE IF MissingPhone(lead_data)
       THEN /\ resp' = [op |-> "create_lead", status |-> 400, detail |-> "Phone is required"]
            /\ UNCHANGED <<leads, crm_sync_log>>
       ELSE IF ~validate_phone(lead_data.phone)
       THEN /\ resp' = [op |-> "create_lead", status |-> 400,
                        detail |-> "Invalid phone number format"]
            /\ UNCHANGED <<leads, crm_sync_log>>
       ELSE IF Missing(lead_data, "program")
       THEN /\ resp' = [op |-> "create_lead", status |-> 400,
                        detail |-> "Program is required"]
            /\ UNCHANGED <<leads, crm_sync_log>>
       ELSE LET d == check_duplicate_lead(leads, now, lead_data.phone,
                                          Get(lead_data, "preferred_centre", ""))
            IN
            IF d # 0
            THEN LET notes == Get(leads[d], "notes", <<>>)
                              \o <<" | Updated: ">> \o Get(lead_data, "notes", <<>>)
                 IN  /\ Len(notes) <= MaxNotePieces
                     /\ leads' = [leads EXCEPT ![d] =
                            SetFields(leads[d], [updated_at |-> now, notes |-> notes])]
                     /\ resp' = [op |-> "create_lead", status |-> 200, success |-> TRUE,
                                 lead_id |-> leads[d].id,
                                 message |-> "Existing lead updated",
                                 duplicate |-> TRUE]
                     /\ UNCHANGED crm_sync_log
            ELSE LET score == generate_lead_score(lead_data)
                     lead == [id |-> Len(leads) + 1,
                              name |-> lead_data.name,
                              phone |-> lead_data.phone,
                              program |-> lead_data.program,
                              preferred_centre |-> Get(lead_data, "preferred_centre", None),
                              source |-> Get(lead_data, "source", "website"),
                              status |-> "new",
                              score |-> score,
                              owner |-> None,
                              notes |-> Get(lead_data, "notes", <<>>),
                              timeline |-> <<[event |-> "created", timestamp |-> now]>>,
                              created_at |-> now,
                              updated_at |-> now]
                     owner == AssignedOwner(lead)
                 IN  /\ Len(leads) < MaxLeads
                     /\ leads' = Append(leads,
                            IF owner = None THEN lead ELSE SetFields(lead, [owner |-> owner]))
                     /\ crm_sync_log' = Append(crm_sync_log, lead.id)
                     /\ resp' = [op |-> "create_lead", status |-> 200, success |-> TRUE,
                                 lead_id |-> lead.id, score |-> score,
                                 message |-> "Lead created successfully"]
    /\ UNCHANGED <<now, input, opsVars, otpVars, payVars, geoVars, bulk_log>>

\* the loop of create_bulk_leads from entry i on; st holds the collection and
\* the created, duplicates and errors lists so far
RECURSIVE BulkLoop(_, _, _, _)
BulkLoop(leads_data, i, t, st) ==
    IF i > Len(leads_data) THEN st
    ELSE
    LET lead_data == leads_data[i]
        phone == Get(lead_data, "phone", NonePhone)
        d == check_duplicate_lead(st.leads, t, phone,
                                  Get(lead_data, "preferred_centre", ""))
        lead == [id |-> Len(st.leads) + 1,
                 name |-> lead_data.name,
                 phone |-> lead_data.phone,
                 program |-> Get(lead_data, "program", "tumble_gym"),
                 preferred_centre |-> Get(lead_data, "preferred_centre", None),
                 source |-> Get(lead_data, "source", "fb_lead_ads"),
                 status |-> "new",
                 score |-> generate_lead_score(lead_data),
                 timeline |-> <<[event |-> "created", timestamp |-> t]>>,
                 created_at |-> t,
                 updated_at |-> t]
    IN  IF d # 0
        THEN BulkLoop(leads_data, i + 1, t,
                      [st EXCEPT !.duplicates = Append(@, phone)])
        ELSE IF "name" \notin DOMAIN lead_data \/ "phone" \notin DOMAIN lead_data
        THEN BulkLoop(leads_data, i + 1, t,
                      [st EXCEPT !.errors = Append(@, phone)])
        ELSE BulkLoop(leads_data, i + 1, t,
                      [st EXCEPT !.leads = Append(@, lead),
                                 !.created = Append(@, lead.id)])

create_bulk_leads(leads_data) ==
    LET st == BulkLoop(leads_data, 1, now,
                       [leads |-> leads, created |-> <<>>, duplicates |-> <<>>,
                        errors |-> <<>>])
    IN  /\ Len(st.leads) <= MaxLeads
        /\ leads' = st.leads
        /\ crm_sync_log' = crm_sync_log \o st.created
        /\ bulk_log' = [op |-> "create_bulk_leads", leads_data |-> leads_data, at |-> now]
        /\ resp' = [op |-> "create_bulk_leads", status |-> 200, success |-> TRUE,
                    created |-> Len(st.created),
                    duplicates |-> Len(st.duplicates),
                    errors |-> Len(st.errors),
                    details |-> [created |-> st.created,
                                 duplicates |-> st.duplicates,
                                 errors |-> st.errors]]
        /\ UNCHANGED <<now, input, opsVars, otpVars, payVars, geoVars>>

TickLead ==
    /\ now < MaxLeadTicks * LeadTick
    /\ now' = now + LeadTick
    /\ UNCHANGED <<resp, input, opsVars, otpVars, payVars, geoVars, leadVars>>

LeadPhone1 == <<"9", "8", "7", "6", "5", "4", "3", "2", "1", "0">>
LeadPhone2 == <<"6", "0", "0", "0", "0", "0", "0", "0", "0", "1">>
BadPhone   == <<"5", "5", "5">>

BaseLead(phone) ==
    [name |-> "Asha", phone |-> phone, program |-> "tumble_gym", source |-> "website"]

LeadInputs ==
    {BaseLead(LeadPhone1), BaseLead(BadPhone),
     [phone |-> LeadPhone1, program |-> "tumble_gym"],
     SetFields(BaseLead(LeadPhone1),
               [preferred_centre |-> "c1", notes |-> <<"urgent call">>])}
    \cup {SetFields(BaseLead(LeadPhone1), [preferred_centre |-> c]) :
             c \in {"", None, "c1"}}
    \cup {SetFields(BaseLead(LeadPhone2), [preferred_centre |-> "c1"])}

BulkEntries ==
    {BaseLead(LeadPhone1),
     SetFields(BaseLead(LeadPhone1), [preferred_centre |-> "c1"]),
     [phone |-> LeadPhone2, preferred_centre |-> "c1"]}

BulkInputs ==
    {<<e>> : e \in BulkEntries} \cup {<<e, f>> : e \in BulkEntries, f \in BulkEntries}

InitLeads == InitCommon

NextCreateLead ==
    \/ \E ld \in LeadInputs : create_lead(ld)
    \/ TickLead

SpecCreateLead == InitLeads /\ [][NextCreateLead]_vars

NextLeads ==
    \/ \E ld \in BulkEntries : create_lead(ld)
    \/ \E L \in BulkInputs : create_bulk_leads(L)
    \/ TickLead

SpecLeads == InitLeads /\ [][NextLeads]_vars

\* C9: no two lead documents have the same phone and the same preferred
\* centre and were created within 30 days of each other.
C9_NoDuplicateLead ==
    \A i \in 1..Len(leads), j \in 1..Len(leads) :
        ( /\ i < j
          /\ leads[i].phone = leads[j].phone
          /\ leads[i].preferred_centre = leads[j].preferred_centre )
        => leads[j].created_at - leads[i].created_at > 30 * MinutesPerDay

\* the new leads of the step that came from the entry e
InsertedFor(e) ==
    {k \in (Len(leads) + 1)..Len(leads') :
        /\ leads'[k].phone = Get(e, "phone", NonePhone)
        /\ leads'[k].preferred_centre = Get(e, "preferred_centre", None)}

\* C10: create_bulk_leads is idempotent.  A list submitted again within 30
\* days of its last submission inserts no lead and reports every entry
\* under duplicates, and no entry of a list is inserted more than once.
C10_BulkIdempotent ==
    [][ \A L \in BulkInputs :
          create_bulk_leads(L) =>
            /\ ( /\ bulk_log.op = "create_bulk_leads"
                 /\ bulk_log.leads_data = L
                 /\ now - bulk_log.at <= 30 * MinutesPerDay )
               => /\ leads' = leads
                  /\ resp'.details.duplicates =
                        [i \in 1..Len(L) |-> Get(L[i], "phone", NonePhone)]
            /\ \A i \in 1..Len(L) : Cardinality(InsertedFor(L[i])) <= 1
      ]_vars

(***************************************************************************)
(* Class attendance (coach_features_routes.py, server.py)                  *)
(* A date value carries its Python type: <<"date", d>> is a datetime.date  *)
(* and <<"datetime", d>> a datetime.datetime at midnight of day d.         *)
(***************************************************************************)

MaxAttendance == 2

AttendanceDays  == {1, 2}
AttendanceNotes == {"late pickup"}

\* what the driver can write: the handlers of server.py turn every
\* datetime.date into a datetime "for MongoDB compatibility" before they
\* store it, because a document holding a datetime.date cannot be encoded
BsonEncodes(doc) == ~("date" \in DOMAIN doc /\ doc.date[1] = "date")

ClassById(id) == FirstIndex({i \in 1..Len(classes) : classes[i].id = id})

\* the for loop of mark_class_attendance from student i on; st.error is the
\* exception that left the loop
RECURSIVE MarkLoop(_, _, _, _, _)
MarkLoop(attendance_data, current_user, t, i, st) ==
    IF i > Len(attendance_data.students) \/ st.error # "" THEN st
    ELSE
      LET student == attendance_data.students[i]
          filter  == [class_id |-> attendance_data.class_id,
                      child_id |-> student.child_id,
                      date     |-> attendance_data.date]
          attendance_record ==
                     [id          |-> <<"att", Len(st.attendance) + 1>>,
                      class_id    |-> attendance_data.class_id,
                      child_id    |-> student.child_id,
                      date        |-> attendance_data.date,
                      status      |-> student.status,
                      coach_notes |-> Get(student, "notes", ""),
                      marked_by   |-> current_user.sub,
                      created_at  |-> t,
                      updated_at  |-> t]
          found == FirstIndex({k \in 1..Len(st.attendance) :
                      /\ st.attendance[k].class_id = filter.class_id
                      /\ st.attendance[k].child_id = filter.child_id
                      /\ st.attendance[k].date = filter.date})
      IN  IF ~BsonEncodes(filter) \/ ~BsonEncodes(attendance_record)
          THEN [st EXCEPT !.error = "InvalidDocument"]
          ELSE MarkLoop(attendance_data, current_user, t, i + 1,
                 [st EXCEPT
                    !.attendance =
                        IF found = 0
                        THEN Append(st.attendance, attendance_record)
                        ELSE [st.attendance EXCEPT
                                ![found] = SetFields(st.attendance[found],
                                                     attendance_record)],
                    !.marked_count = st.marked_count + 1])

mark_class_attendance(attendance_data, current_user) ==
    /\ IF current_user.role # "coach"
       THEN /\ resp' = [op |-> "mark_class_attendance", status |-> 403,
                        detail |-> "Only coaches can mark attendance"]
            /\ UNCHANGED attendance
       ELSE IF ClassById(attendance_data.class_id) = 0
       THEN /\ resp' = [op |-> "mark_class_attendance", status |-> 404,
                        detail |-> "Class not found"]
            /\ UNCHANGED attendance
       ELSE IF classes[ClassById(attendance_data.class_id)].coach_id
                    # current_user.sub
       THEN /\ resp' = [op |-> "mark_class_attendance", status |-> 403,
                        detail |-> "You don't teach this class"]
            /\ UNCHANGED attendance
       ELSE LET st == MarkLoop(attendance_data, current_user, now, 1,
                        [attendance |-> attendance, error |-> "",
                         marked_count |-> 0])
            IN  /\ Len(st.attendance) <= MaxAttendance
                /\ attendance' = st.attendance
                /\ resp' = IF st.error # ""
                           THEN [op |-> "mark_class_attendance",
                                 status |-> 500, detail |-> st.error]
                           ELSE [op |-> "mark_class_attendance",
                                 status |-> 200, success |-> TRUE,
                                 marked_count |-> st.marked_count]
    /\ UNCHANGED <<now, input, campaigns, pause_hist, otpVars, payVars,
                   geoVars, leadVars>>

\* POST /attendance: one record per request, its date stored as a datetime
mark_attendance(attendance_data, current_user) ==
    /\ IF current_user.role \notin {"coach", "admin"}
       THEN /\ resp' = [op |-> "mark_attendance", status |-> 403,
                        detail |-> "Not authorized"]
            /\ UNCHANGED attendance
       ELSE LET new_attendance ==
                    [id          |-> <<"att", Len(attendance) + 1>>,
                     class_id    |-> attendance_data.class_id,
                     child_id    |-> attendance_data.child_id,
                     date        |-> attendance_data.date,
                     status      |-> attendance_data.status,
                     coach_notes |-> None,
                     marked_by   |-> current_user.sub,
                     created_at  |-> now]
                attendance_dict ==
                    [new_attendance EXCEPT
                        !.date = <<"datetime", new_attendance.date[2]>>]
            IN  /\ Len(attendance) < MaxAttendance
                /\ BsonEncodes(attendance_dict)
                /\ attendance' = Append(attendance, attendance_dict)
                /\ resp' = [op |-> "mark_attendance", status |-> 200,
                            id |-> new_attendance.id]
    /\ UNCHANGED <<now, input, campaigns, pause_hist, otpVars, payVars,
                   geoVars, leadVars>>

Students ==
    {[child_id |-> "child1", status |-> s] : s \in {"present", "absent"}}
    \cup {[child_id |-> "child1", status |-> "late", notes |-> n] :
            n \in AttendanceNotes}

\* an AttendanceMarkRequest: pydantic parses its date into a datetime.date
MarkInputs ==
    {[class_id |-> c, date |-> <<"date", d>>, students |-> studs] :
        c \in {"class1", "class2", "noclass"}, d \in AttendanceDays,
        studs \in {<<>>} \cup {<<s>> : s \in Students}
                  \cup {<<s, r>> : s \in Students, r \in Students}}

AttendanceInputs ==
    {[class_id |-> "class1", child_id |-> "child1", date |-> <<"date", d>>,
      status |-> s] : d \in AttendanceDays, s \in {"present", "absent"}}

InitAttendance == InitCommon

NextAttendance ==
    \/ \E ad \in MarkInputs, cu \in CurrentUsers : mark_class_attendance(ad, cu)
    \/ \E ad \in AttendanceInputs, cu \in CurrentUsers : mark_attendance(ad, cu)

SpecAttendance == InitAttendance /\ [][NextAttendance]_vars

\* the records of coll for a class, a child and a day
AttendanceFor(coll, class_id, child_id, day) ==
    {k \in 1..Len(coll) : /\ coll[k].class_id = class_id
                          /\ coll[k].child_id = child_id
                          /\ coll[k].date[2] = day}

\* C11: mark_class_attendance upserts.  When the coach of a class marks
\* students for a date, each marked student has afterwards exactly one
\* attendance record for that class and date, and it carries the status and
\* the notes of the student's last entry in the request.
C11_AttendanceUpsert ==
    [][ \A ad \in MarkInputs, cu \in CurrentUsers :
          ( /\ mark_class_attendance(ad, cu)
            /\ cu.role = "coach"
            /\ ClassById(ad.class_id) # 0
            /\ classes[ClassById(ad.class_id)].coach_id = cu.sub )
          => \A i \in 1..Len(ad.students) :
               LET recs == AttendanceFor(attendance', ad.class_id,
                                         ad.students[i].child_id, ad.date[2])
                   last == CHOOSE j \in 1..Len(ad.students) :
                             /\ ad.students[j].child_id = ad.students[i].child_id
                             /\ \A k \in (j + 1)..Len(ad.students) :
                                  ad.students[k].child_id
                                      # ad.students[i].child_id
               IN  /\ Cardinality(recs) = 1
                   /\ \A k \in recs :
                        /\ attendance'[k].status = ad.students[last].status
                        /\ attendance'[k].coach_notes =
                               Get(ad.students[last], "notes", "")
      ]_vars

(***************************************************************************)
(* User accounts (server.py, franchise_routes.py, admin_routes.py)         *)
(***************************************************************************)

MaxUsers == 3

\* the tokens of the back-office callers
StaffUsers ==
    {create_access_token([sub |-> "admin1", role |-> r]) :
        r \in {"admin", "franchise", "parent"}}

register(user_data) ==
    /\ IF UserByPhone(user_data.phone) # 0
       THEN /\ resp' = [op |-> "register", status |-> 400,
                        detail |-> "Phone already registered"]
            /\ UNCHANGED users
       ELSE LET user == [id |-> Len(users) + 1, phone |-> user_data.phone,
                         role |-> user_data.role]
            IN  /\ Len(users) < MaxUsers
                /\ users' = Append(users, user)
                /\ resp' = [op |-> "register", status |-> 200,
                            user |-> user.id]
    /\ UNCHANGED <<now, input, opsVars, otp_store, otp_seen, payVars, geoVars,
                   leadVars>>

create_franchise_user(user_data, current_user) ==
    /\ IF current_user.role # "admin"
       THEN /\ resp' = [op |-> "create_franchise_user", status |-> 403,
                        detail |-> "Only super admin can create franchise users"]
            /\ UNCHANGED users
       ELSE IF UserByPhone(user_data.phone) # 0
       THEN /\ resp' = [op |-> "create_franchise_user", status |-> 400,
                        detail |-> "User with this phone already exists"]
            /\ UNCHANGED users
       ELSE LET new_user == [id |-> Len(users) + 1, phone |-> user_data.phone,
                             role |-> user_data.role]
            IN  /\ Len(users) < MaxUsers
                /\ users' = Append(users, new_user)
                /\ resp' = [op |-> "create_franchise_user", status |-> 200,
                            user |-> new_user.id]
    /\ UNCHANGED <<now, input, opsVars, otp_store, otp_seen, payVars, geoVars,
                   leadVars>>

create_coach(coach_data, current_user) ==
    /\ IF current_user.role \notin {"admin", "franchise"}
       THEN /\ resp' = [op |-> "create_coach", status |-> 403,
                        detail |-> "Not authorized"]
            /\ UNCHANGED users
       ELSE LET new_coach == [id |-> Len(users) + 1, phone |-> coach_data.phone,
                              role |-> "coach"]
            IN  /\ Len(users) < MaxUsers
                /\ users' = Append(users, new_coach)
                /\ resp' = [op |-> "create_coach", status |-> 200,
                            user |-> new_coach.id]
    /\ UNCHANGED <<now, input, opsVars, otp_store, otp_seen, payVars, geoVars,
                   leadVars>>

RegisterInputs  == {[phone |-> p, role |-> "parent"] : p \in Phones}
FranchiseInputs == {[phone |-> p, role |-> r] :
                        p \in Phones, r \in {"franchise", "manager"}}
CoachInputs     == {[phone |-> p] : p \in Phones}

InitUsers == InitCommon

NextUsers ==
    \/ \E p \in Phones : send_otp(p)
    \/ \E p \in Phones, o \in Otps : verify_otp_endpoint(p, o)
    \/ \E ud \in RegisterInputs : register(ud)
    \/ \E ud \in FranchiseInputs, cu \in StaffUsers :
            create_franchise_user(ud, cu)
    \/ \E cd \in CoachInputs, cu \in StaffUsers : create_coach(cd, cu)

SpecUsers == InitUsers /\ [][NextUsers]_vars

\* C12: a phone number identifies at most one user: no two documents of
\* the users collection carry the same phone.
C12_PhoneUnique ==
    \A i \in 1..Len(users), j \in 1..Len(users) :
        i # j => users[i].phone # users[j].phone

(***************************************************************************)
(* Enrollment pause and resume (server.py)                                 *)
(* start_date and end_date are day numbers; pause_hist records, for each   *)
(* enrollment, how many times it went from not paused to paused and the    *)
(* time at which the pause still open began (-1 when none is open).        *)
(***************************************************************************)

MaxEnrollments == 2
MaxEnrollDays  == 2
MaxPauses      == 3

pause_allowed_times == 2

\* plan_months.get(plan_type, 3)
plan_months(plan_type) ==
    CASE plan_type = "3_month"  -> 3
      [] plan_type = "6_month"  -> 6
      [] plan_type = "12_month" -> 12
      [] plan_type = "trial"    -> 0
      [] OTHER                  -> 3

EnrollmentById(id) ==
    FirstIndex({i \in 1..Len(enrollments) : enrollments[i].id = id})

\* find_one({"id": child_id, "parent_id": parent_id}) on db.children
OwnedChild(child_id, parent_id) ==
    FirstIndex({i \in 1..Len(children) :
        children[i].id = child_id /\ children[i].parent_id = parent_id})

create_enrollment(enrollment_data, current_user) ==
    /\ IF OwnedChild(enrollment_data.child_id, current_user.sub) = 0
       THEN /\ resp' = [op |-> "create_enrollment", status |-> 403,
                        detail |-> "Not authorized for this child"]
            /\ UNCHANGED <<enrollments, pause_hist>>
       ELSE LET months   == plan_months(enrollment_data.plan_type)
                end_date == enrollment_data.start_date + 30 * months
                new_enrollment ==
                    [id         |-> Len(enrollments) + 1,
                     child_id   |-> enrollment_data.child_id,
                     class_id   |-> enrollment_data.class_id,
                     plan_type  |-> enrollment_data.plan_type,
                     start_date |-> enrollment_data.start_date,
                     end_date   |-> end_date,
                     status     |-> "active"]
            IN  /\ Len(enrollments) < MaxEnrollments
                /\ enrollments' = Append(enrollments, new_enrollment)
                /\ pause_hist' = Append(pause_hist,
                                    [pauses |-> 0, paused_since |-> -1])
                /\ resp' = [op |-> "create_enrollment", status |-> 200,
                            id |-> new_enrollment.id]
    /\ UNCHANGED <<now, input, attendance, campaigns, otpVars, payments,
                   geoVars, leadVars>>

pause_enrollment(enrollment_id, current_user) ==
    LET i == EnrollmentById(enrollment_id) IN
    /\ IF i = 0
       THEN /\ resp' = [op |-> "pause_enrollment", status |-> 404,
                        detail |-> "Enrollment not found"]
            /\ UNCHANGED <<enrollments, pause_hist>>
       ELSE IF OwnedChild(enrollments[i].child_id, current_user.sub) = 0
       THEN /\ resp' = [op |-> "pause_enrollment", status |-> 403,
                        detail |-> "Not authorized"]
            /\ UNCHANGED <<enrollments, pause_hist>>
       ELSE /\ pause_hist[i].pauses < MaxPauses
            /\ enrollments' = [enrollments EXCEPT
                    ![i] = SetFields(enrollments[i], [status |-> "paused"])]
            /\ pause_hist' =
                 IF enrollments[i].status = "paused" THEN pause_hist
                 ELSE [pause_hist EXCEPT
                         ![i] = [pauses |-> pause_hist[i].pauses + 1,
                                 paused_since |-> now]]
            /\ resp' = [op |-> "pause_enrollment", status |-> 200,
                        success |-> TRUE, message |-> "Enrollment paused"]
    /\ UNCHANGED <<now, input, attendance, campaigns, otpVars, payments,
                   geoVars, leadVars>>

resume_enrollment(enrollment_id, current_user) ==
    LET i == EnrollmentById(enrollment_id) IN
    /\ IF i = 0
       THEN /\ resp' = [op |-> "resume_enrollment", status |-> 404,
                        detail |-> "Enrollment not found"]
            /\ UNCHANGED <<enrollments, pause_hist>>
       ELSE IF OwnedChild(enrollments[i].child_id, current_user.sub) = 0
       THEN /\ resp' = [op |-> "resume_enrollment", status |-> 403,
                        detail |-> "Not authorized"]
            /\ UNCHANGED <<enrollments, pause_hist>>
       ELSE /\ enrollments' = [enrollments EXCEPT
                    ![i] = SetFields(enrollments[i], [status |-> "active"])]
            /\ pause_hist' = [pause_hist EXCEPT ![i].paused_since = -1]
            /\ resp' = [op |-> "resume_enrollment", status |-> 200,
                        success |-> TRUE, message |-> "Enrollment resumed"]
    /\ UNCHANGED <<now, input, attendance, campaigns, otpVars, payments,
                   geoVars, leadVars>>

TickEnrollDay ==
    /\ now < MaxEnrollDays * MinutesPerDay
    /\ now' = now + MinutesPerDay
    /\ UNCHANGED <<resp, input, opsVars, otpVars, payVars, geoVars, leadVars>>

EnrollmentInputs ==
    {[child_id |-> c, class_id |-> "class1", plan_type |-> p,
      start_date |-> 0] : c \in ChildIds, p \in {"3_month", "trial"}}

EnrollmentIds == 0..MaxEnrollments

\* the owner of child1, and a caller who owns no child
EnrollUsers ==
    {create_access_token([sub |-> u, role |-> "parent"]) :
        u \in {"user1", "user2"}}

InitEnroll == InitCommon

NextEnroll ==
    \/ \E ed \in EnrollmentInputs, cu \in EnrollUsers : create_enrollment(ed, cu)
    \/ \E id \in EnrollmentIds, cu \in EnrollUsers : pause_enrollment(id, cu)
    \/ \E id \in EnrollmentIds, cu \in EnrollUsers : resume_enrollment(id, cu)
    \/ TickEnrollDay

SpecEnroll == InitEnroll /\ [][NextEnroll]_vars

\* C13: an enrollment is paused at most pause_allowed_times times.  Once
\* it has been paused twice, a further pause request is refused and leaves
\* its status as it was.
C13_PauseAtMostTwice ==
    [][ \A id \in EnrollmentIds, cu \in EnrollUsers :
          ( /\ pause_enrollment(id, cu)
            /\ EnrollmentById(id) # 0
            /\ pause_hist[EnrollmentById(id)].pauses >= pause_allowed_times )
          => /\ resp'.status # 200
             /\ enrollments'[EnrollmentById(id)].status
                    = enrollments[EnrollmentById(id)].status
      ]_vars

\* C14: a pause extends the enrollment.  When a paused enrollment is
\* resumed, its end_date moves later by the number of days it was paused.
C14_PauseExtendsEndDate ==
    [][ \A id \in EnrollmentIds, cu \in EnrollUsers :
          ( /\ resume_enrollment(id, cu)
            /\ resp'.status = 200
            /\ enrollments[EnrollmentById(id)].status = "paused" )
          => enrollments'[EnrollmentById(id)].end_date
                = enrollments[EnrollmentById(id)].end_date
                  + (now - pause_hist[EnrollmentById(id)].paused_since)
                        \div MinutesPerDay
      ]_vars

(***************************************************************************)
(* Campaigns (campaigns_routes.py, admin_routes.py)                        *)
(* Both routers write db.campaigns.  The handlers of admin_routes.py that  *)
(* share a name with one of campaigns_routes.py carry the prefix admin_.   *)
(***************************************************************************)

MaxCampaigns     == 2
MaxCampaignTicks == 1

\* the next uuid: an id no stored campaign has
NewCampaignId ==
    CHOOSE id \in 1..(Len(campaigns) + 1) :
        /\ \A i \in 1..Len(campaigns) : campaigns[i].id # id
        /\ \A smaller \in 1..(id - 1) :
              \E i \in 1..Len(campaigns) : campaigns[i].id = smaller

CampaignById(id) ==
    FirstIndex({i \in 1..Len(campaigns) : campaigns[i].id = id})

\* the positions of seq without position i
RemoveAt(seq, i) ==
    [k \in 1..(Len(seq) - 1) |-> IF k < i THEN seq[k] ELSE seq[k + 1]]

\* get_target_audience: the recipients, one per phone; only the targets
\* over users are modelled, every other target has no recipients here
get_target_audience(target) ==
    IF target = "all_parents"
    THEN {users[i].phone : i \in {k \in 1..Len(users) : users[k].role = "parent"}}
    ELSE {}

create_campaign(campaign_data, current_user) ==
    /\ IF current_user.role \notin {"admin", "franchise", "manager"}
       THEN \* the HTTPException(403) is caught by the except Exception clause
            /\ resp' = [op |-> "create_campaign", status |-> 500,
                        detail |-> "403: Not authorized"]
            /\ UNCHANGED campaigns
       ELSE LET recipients == get_target_audience(campaign_data.target_audience)
                campaign_doc ==
                    [id |-> NewCampaignId,
                     name |-> campaign_data.name,
                     target_audience |-> campaign_data.target_audience,
                     schedule_type |-> campaign_data.schedule_type,
                     status |-> IF campaign_data.schedule_type = "scheduled"
                                THEN "draft" ELSE "pending",
                     recipients_count |-> Cardinality(recipients),
                     sent_count |-> 0,
                     created_by |-> current_user.sub]
            IN  /\ Len(campaigns) < MaxCampaigns
                /\ campaigns' = Append(campaigns, campaign_doc)
                /\ resp' = [op |-> "create_campaign", status |-> 200,
                            campaign_id |-> campaign_doc.id,
                            recipients_count |-> Cardinality(recipients)]
    /\ UNCHANGED <<now, input, attendance, pause_hist, otpVars, payVars,
                   geoVars, leadVars>>

update_campaign(campaign_id, update_data) ==
    LET i == CampaignById(campaign_id) IN
    /\ IF i = 0
       THEN /\ resp' = [op |-> "update_campaign", status |-> 404,
                        detail |-> "Campaign not found"]
            /\ UNCHANGED campaigns
       ELSE LET update_dict ==
                    [k \in {"updated_at"} \cup
                           {f \in DOMAIN update_data : update_data[f] # ""} |->
                        IF k = "updated_at" THEN "utcnow" ELSE update_data[k]]
            IN  /\ campaigns' = [campaigns EXCEPT
                                    ![i] = SetFields(campaigns[i], update_dict)]
                /\ resp' = [op |-> "update_campaign", status |-> 200,
                            success |-> TRUE]
    /\ UNCHANGED <<now, input, attendance, pause_hist, otpVars, payVars,
                   geoVars, leadVars>>

delete_campaign(campaign_id) ==
    LET i == CampaignById(campaign_id) IN
    /\ IF i = 0
       THEN /\ resp' = [op |-> "delete_campaign", status |-> 404,
                        detail |-> "Campaign not found"]
            /\ UNCHANGED campaigns
       ELSE IF campaigns[i].status \in {"sent", "sending"}
       THEN /\ resp' = [op |-> "delete_campaign", status |-> 400,
                        detail |-> "Cannot delete sent campaigns"]
            /\ UNCHANGED campaigns
       ELSE /\ campaigns' = RemoveAt(campaigns, i)
            /\ resp' = [op |-> "delete_campaign", status |-> 200,
                        success |-> TRUE]
    /\ UNCHANGED <<now, input, attendance, pause_hist, otpVars, payVars,
                   geoVars, leadVars>>

send_campaign(campaign_id) ==
    LET i == CampaignById(campaign_id) IN
    /\ IF i = 0
       THEN /\ resp' = [op |-> "send_campaign", status |-> 404,
                        detail |-> "Campaign not found"]
            /\ UNCHANGED campaigns
       ELSE IF campaigns[i].status = "sent"
       THEN /\ resp' = [op |-> "send_campaign", status |-> 400,
                        detail |-> "Campaign already sent"]
            /\ UNCHANGED campaigns
       ELSE LET recipients ==
                    get_target_audience(Get(campaigns[i], "target_audience", None))
            IN  /\ campaigns' = [campaigns EXCEPT
                        ![i] = SetFields(campaigns[i],
                                  [status |-> "sent",
                                   sent_count |-> Cardinality(recipients),
                                   sent_at |-> now])]
                /\ resp' = [op |-> "send_campaign", status |-> 200,
                            recipients_count |-> Cardinality(recipients)]
    /\ UNCHANGED <<now, input, attendance, pause_hist, otpVars, payVars,
                   geoVars, leadVars>>

admin_create_campaign(campaign_data, current_user) ==
    /\ IF current_user.role \notin {"admin", "franchise"}
       THEN /\ resp' = [op |-> "admin_create_campaign", status |-> 403,
                        detail |-> "Not authorized"]
            /\ UNCHANGED campaigns
       ELSE LET campaign ==
                    [id |-> NewCampaignId,
                     name |-> campaign_data.name,
                     audience_filter |-> Get(campaign_data, "audience_filter", <<>>),
                     schedule_type |-> Get(campaign_data, "schedule_type", "immediate"),
                     status |-> "draft",
                     sent_count |-> 0,
                     created_by |-> current_user.sub]
            IN  /\ Len(campaigns) < MaxCampaigns
                /\ campaigns' = Append(campaigns, campaign)
                /\ resp' = [op |-> "admin_create_campaign", status |-> 200,
                            campaign_id |-> campaign.id]
    /\ UNCHANGED <<now, input, attendance, pause_hist, otpVars, payVars,
                   geoVars, leadVars>>

admin_send_campaign(campaign_id, current_user) ==
    LET i == CampaignById(campaign_id) IN
    /\ IF current_user.role \notin {"admin", "franchise"}
       THEN /\ resp' = [op |-> "admin_send_campaign", status |-> 403,
                        detail |-> "Not authorized"]
            /\ UNCHANGED campaigns
       ELSE IF i = 0
       THEN /\ resp' = [op |-> "admin_send_campaign", status |-> 404,
                        detail |-> "Campaign not found"]
            /\ UNCHANGED campaigns
       ELSE LET audience_filter == Get(campaigns[i], "audience_filter", <<>>)
                target_users ==
                    {k \in 1..Len(users) :
                        "role" \in DOMAIN audience_filter
                            => users[k].role = audience_filter.role}
                sent_count == Cardinality(target_users)
            IN  /\ campaigns' = [campaigns EXCEPT
                        ![i] = SetFields(campaigns[i],
                                  [status |-> "sent",
                                   sent_count |-> sent_count,
                                   sent_at |-> now])]
                /\ resp' = [op |-> "admin_send_campaign", status |-> 200,
                            sent_count |-> sent_count]
    /\ UNCHANGED <<now, input, attendance, pause_hist, otpVars, payVars,
                   geoVars, leadVars>>

TickCampaign ==
    /\ now < MaxCampaignTicks
    /\ now' = now + 1
    /\ UNCHANGED <<resp, input, opsVars, otpVars, payVars, geoVars, leadVars>>

CampaignInputs ==
    {[name |-> "Summer camp", target_audience |-> "all_parents",
      schedule_type |-> "immediate"],
     [name |-> "Summer camp", target_audience |-> "all",
      schedule_type |-> "scheduled"]}

AdminCampaignInputs == {[name |-> "Summer camp"]}

\* a CampaignUpdate: an unset Optional field is left out, "" is an empty string
CampaignUpdates == {[status |-> "draft"], [name |-> ""]}

CampaignParents == {[phone |-> "9000000001", role |-> "parent"]}

CampaignIds == 1..(MaxCampaigns + 1)

CampaignUsers ==
    {create_access_token([sub |-> "admin1", role |-> r]) :
        r \in {"admin", "parent"}}

InitCampaigns == InitCommon

NextCampaigns ==
    \/ \E ud \in CampaignParents : register(ud)
    \/ \E cd \in CampaignInputs, cu \in CampaignUsers : create_campaign(cd, cu)
    \/ \E id \in CampaignIds, ud \in CampaignUpdates : update_campaign(id, ud)
    \/ \E id \in CampaignIds : delete_campaign(id)
    \/ \E id \in CampaignIds : send_campaign(id)
    \/ \E cd \in AdminCampaignInputs, cu \in CampaignUsers :
            admin_create_campaign(cd, cu)
    \/ \E id \in CampaignIds, cu \in CampaignUsers : admin_send_campaign(id, cu)
    \/ TickCampaign

SpecCampaigns == InitCampaigns /\ [][NextCampaigns]_vars

\* the campaign at position i is sent now and is kept as it was sent
KeptAsSent(i) ==
    \E j \in 1..Len(campaigns') :
        /\ campaigns'[j].id = campaigns[i].id
        /\ campaigns'[j].sent_count = campaigns[i].sent_count
        /\ "sent_at" \in DOMAIN campaigns'[j]
        /\ campaigns'[j].sent_at = campaigns[i].sent_at

\* C15: a campaign whose status is 'sent' is never sent again and never
\* deleted.  No operation removes it or overwrites its sent_count or
\* sent_at, and a request to send or to delete it is answered with HTTP 400.
C15_SentCampaignFinal ==
    [][ \A i \in 1..Len(campaigns) :
          campaigns[i].status = "sent" =>
            /\ KeptAsSent(i)
            /\ send_campaign(campaigns[i].id) => resp'.status = 400
            /\ delete_campaign(campaigns[i].id) => resp'.status = 400
            /\ \A cu \in CampaignUsers :
                 ( admin_send_campaign(campaigns[i].id, cu)
                   /\ cu.role \in {"admin", "franchise"} )
                 => resp'.status = 400
      ]_vars

(***************************************************************************)
(* Gateway orders (razorpay_utils.py)                                      *)
(***************************************************************************)

MaxOrderRupees == 40

\* whole-rupee amounts, the plan price of the order test, and the amounts
\* with paise under two rupees
WholeAmounts == {<<r, 0>> : r \in (0..MaxOrderRupees) \cup {12500}}
PaiseAmounts == {<<r, h>> : r \in 0..1, h \in {13, 29, 50, 57, 99}}

Call_create_order ==
    \E amount \in WholeAmounts \cup PaiseAmounts,
       receipt \in {"", "pay_child1"},
       gateway \in Gateways("order_A") :
        /\ resp' = [op |-> "create_order", amount |-> amount,
                    receipt |-> receipt, gateway |-> gateway,
                    order |-> create_order(amount, receipt, gateway)]
        /\ UNCHANGED <<now, input, opsVars, otpVars, payVars, geoVars, leadVars>>

InitOrder == InitCommon

NextOrder == Call_create_order

SpecOrder == InitOrder /\ [][NextOrder]_vars

\* C16: for every whole-rupee amount create_order submits 100 times the
\* rupees as the amount in paise, with payment_capture = 1, and when the
\* gateway accepts it returns the gateway's order id and the rupee amount
\* it was given.
C16_OrderInPaise ==
    ( resp.op = "create_order" /\ resp.amount[2] = 0 )
    => /\ resp.order.request.amount = 100 * resp.amount[1]
       /\ resp.order.request.payment_capture = 1
       /\ resp.gateway.ok
            => /\ resp.order.result.success
               /\ resp.order.result.order_id = resp.gateway.id
               /\ resp.order.result.amount = resp.amount

C16_Witness ==
    /\ resp.op = "create_order"
    /\ resp.amount = <<12500, 0>>
    /\ resp.gateway.ok
    /\ resp.order.request.amount = 1250000
    /\ resp.order.result.order_id = "order_A"

(***************************************************************************)
(* Lead status funnel (leads_routes.py, admin_routes.py)                   *)
(* update_lead of admin_routes.py carries the prefix admin_.               *)
(***************************************************************************)

MaxLeadUpdates == 2

LeadStatuses == {"new", "contacted", "enrolled"}

LeadById(id) == FirstIndex({i \in 1..Len(leads) : leads[i].id = id})

update_lead(lead_id, updates, current_user) ==
    LET i == LeadById(lead_id) IN
    /\ IF i = 0
       THEN /\ resp' = [op |-> "update_lead", status |-> 404,
                        detail |-> "Lead not found"]
            /\ UNCHANGED <<leads, crm_sync_log>>
       ELSE LET lead == leads[i]
                timeline_event ==
                    [event |-> "status_change", timestamp |-> now,
                     from |-> Get(lead, "status", None),
                     to |-> updates.status, by |-> current_user.sub]
                pushed ==
                    IF "status" \in DOMAIN updates
                       /\ updates.status # Get(lead, "status", None)
                    THEN SetFields(lead,
                            [timeline |-> Append(lead.timeline, timeline_event)])
                    ELSE lead
            IN  /\ Len(crm_sync_log) < MaxLeads + MaxLeadUpdates
                /\ leads' = [leads EXCEPT ![i] =
                        SetFields(pushed, SetFields(updates, [updated_at |-> now]))]
                /\ crm_sync_log' = Append(crm_sync_log, lead.id)
                /\ resp' = [op |-> "update_lead", status |-> 200, success |-> TRUE]
    /\ UNCHANGED <<now, input, opsVars, otpVars, payVars, geoVars, bulk_log>>

admin_update_lead(lead_id, updates, current_user) ==
    LET i == LeadById(lead_id) IN
    /\ IF current_user.role \notin {"admin", "franchise"}
       THEN /\ resp' = [op |-> "admin_update_lead", status |-> 403,
                        detail |-> "Not authorized"]
            /\ UNCHANGED leads
       ELSE /\ leads' = IF i = 0 THEN leads
                        ELSE [leads EXCEPT ![i] = SetFields(leads[i], updates)]
            /\ resp' = [op |-> "admin_update_lead", status |-> 200,
                        success |-> TRUE]
    /\ UNCHANGED <<now, input, opsVars, otpVars, payVars, geoVars,
                   crm_sync_log, bulk_log>>

crm_webhook(data) ==
    LET crm_lead_id == Get(data, "id", None)
        status      == Get(data, "status", None)
        i == FirstIndex({k \in 1..Len(leads) :
                FieldEquals(leads[k], "crm_lead_id", crm_lead_id, None)})
    IN
    /\ leads' = IF i = 0 THEN leads
                ELSE [leads EXCEPT ![i] =
                        SetFields(leads[i], [status |-> status, updated_at |-> now])]
    /\ resp' = [op |-> "crm_webhook", status |-> 200, success |-> TRUE]
    /\ UNCHANGED <<now, input, opsVars, otpVars, payVars, geoVars,
                   crm_sync_log, bulk_log>>

FunnelLeads == {SetFields(BaseLead(LeadPhone1), [preferred_centre |-> "c1"])}

LeadUpdates == {[status |-> st] : st \in LeadStatuses} \cup {[score |-> 90]}

LeadIds == 1..(MaxLeads + 1)

WebhookInputs == {[id |-> "zoho-1", status |-> "contacted"],
                  [status |-> "enrolled"]}

InitFunnel == InitCommon

NextFunnel ==
    \/ \E ld \in FunnelLeads : create_lead(ld)
    \/ \E id \in LeadIds, up \in LeadUpdates, cu \in CampaignUsers :
            update_lead(id, up, cu)
    \/ \E id \in LeadIds, up \in LeadUpdates, cu \in CampaignUsers :
            admin_update_lead(id, up, cu)
    \/ \E data \in WebhookInputs : crm_webhook(data)

SpecFunnel == InitFunnel /\ [][NextFunnel]_vars

IsStatusChange(e) == e.event = "status_change"

\* C17: every change of a lead's status is recorded in its timeline.  A
\* step that changes the status of a lead appends exactly one status_change
\* event with the old and the new status to that lead's timeline, and a step
\* that leaves the status as it was adds no status_change event.
C17_StatusChangeRecorded ==
    [][ \A i \in 1..Len(leads) :
          LET old == leads[i]
              new == leads'[i]
          IN  IF new.status # old.status
              THEN /\ Len(new.timeline) = Len(old.timeline) + 1
                   /\ SubSeq(new.timeline, 1, Len(old.timeline)) = old.timeline
                   /\ new.timeline[Len(new.timeline)].event = "status_change"
                   /\ new.timeline[Len(new.timeline)].from = old.status
                   /\ new.timeline[Len(new.timeline)].to = new.status
              ELSE SelectSeq(new.timeline, IsStatusChange)
                     = SelectSeq(old.timeline, IsStatusChange)
      ]_vars

====
